---- MODULE Spec2Model ----
(***************************************************************************)
(* pngme: the chunk-type tag, the chunk record and the PNG container, and  *)
(* the four commands that read, change and write a PNG file.               *)
(*                                                                         *)
(* Bytes are numbers 0..255, byte strings and Rust Strings (UTF-8) are     *)
(* sequences of bytes, u32 values are numbers 0..2^32-1.  A Result is a    *)
(* record [kind, msg, value]: kind "ok" carries the value, kind "err" the  *)
(* anyhow message, kind "panic" is an unwinding panic (unwrap on Err, or   *)
(* an arithmetic overflow in a build with overflow checks).                *)
(***************************************************************************)
EXTENDS Integers, Sequences, FiniteSets, TLC

VARIABLES
    overflow_checks,  \* build profile: TRUE = overflow checks on (debug), FALSE = wrapping (release)
    tinput, top, tresult, tqueried, tflags,   \* chunk_type.rs: input, operation, result, derived flags
    chunk, wire, tamper, parsed, cpc,      \* chunk.rs: built chunk, serialized bytes, tampering, parse result
    file, png, cmd, pc, result, writes, ncmds, stdout   \* commands.rs: file on disk and the running command

tagVars == <<tinput, top, tresult, tqueried, tflags>>
chunkVars == <<chunk, wire, tamper, parsed, cpc>>
cmdVars == <<file, png, cmd, pc, result, writes, ncmds, stdout>>
vars == <<overflow_checks, tagVars, chunkVars, cmdVars>>

(***************************************************************************)
(* Bounds of the model.                                                    *)
(***************************************************************************)
MaxStrLen == 5
MaxData == 2
MaxCmds == 3

(***************************************************************************)
(* Results.                                                                *)
(***************************************************************************)
None == [kind |-> "none", msg |-> "", value |-> <<>>]
Ok(v) == [kind |-> "ok", msg |-> "", value |-> v]
Err(m) == [kind |-> "err", msg |-> m, value |-> <<>>]
Panic(m) == [kind |-> "panic", msg |-> m, value |-> <<>>]

(***************************************************************************)
(* u8 / u32 arithmetic.  A u32 is kept as its two 16-bit halves, so that   *)
(* every value 0..2^32-1 is representable and 32-bit overflow is explicit. *)
(***************************************************************************)
Half == 65536

RECURSIVE BitAnd(_, _)
BitAnd(a, b) ==
    IF a = 0 \/ b = 0 THEN 0
    ELSE (a % 2) * (b % 2) + 2 * BitAnd(a \div 2, b \div 2)

RECURSIVE BitXor(_, _)
BitXor(a, b) ==
    IF a = 0 THEN b
    ELSE IF b = 0 THEN a
    ELSE ((a + b) % 2) + 2 * BitXor(a \div 2, b \div 2)

Shl(a, n) == a * (2 ^ n)

\* a usize that fits a u32 (value.len().try_into().unwrap(), for slices shorter than 2^31)
U32Of(n) == [hi |-> n \div Half, lo |-> n % Half]

\* u32 as usize (length.try_into().unwrap()), used where the value is known to be small
UsizeOf(u) == u.hi * Half + u.lo

U32Xor(a, b) == [hi |-> BitXor(a.hi, b.hi), lo |-> BitXor(a.lo, b.lo)]

U32Shr(a, n) ==
    [hi |-> a.hi \div (2 ^ n), lo |-> (a.lo \div (2 ^ n)) + (a.hi % (2 ^ n)) * (Half \div (2 ^ n))]

\* a + b in u32: the sum modulo 2^32, and whether it overflowed
U32AddOverflows(a, b) == a.hi + b.hi + ((a.lo + b.lo) \div Half) >= Half

U32WrappingAdd(a, b) ==
    [hi |-> (a.hi + b.hi + ((a.lo + b.lo) \div Half)) % Half, lo |-> (a.lo + b.lo) % Half]

U32Lt(a, b) == a.hi < b.hi \/ (a.hi = b.hi /\ a.lo < b.lo)

U32FromLeBytes(b) == [hi |-> b[4] * 256 + b[3], lo |-> b[2] * 256 + b[1]]

U32FromBeBytes(b) == [hi |-> b[1] * 256 + b[2], lo |-> b[3] * 256 + b[4]]

U32ToBeBytes(n) == << n.hi \div 256, n.hi % 256, n.lo \div 256, n.lo % 256 >>

U32ToLeBytes(n) == << n.lo % 256, n.lo \div 256, n.hi % 256, n.hi \div 256 >>

Take(s, n) == SubSeq(s, 1, IF n < Len(s) THEN n ELSE Len(s))
Drop(s, n) == SubSeq(s, n + 1, Len(s))

(***************************************************************************)
(* String::from_utf8: the well-formed UTF-8 byte sequences.                *)
(***************************************************************************)
IsCont(b) == 128 <= b /\ b <= 191

RECURSIVE Utf8Valid(_)
Utf8Valid(s) ==
    IF Len(s) = 0 THEN TRUE
    ELSE LET b == s[1]
             n == Len(s)
         IN  IF b <= 127 THEN Utf8Valid(Drop(s, 1))
             ELSE IF 194 <= b /\ b <= 223
                  THEN n >= 2 /\ IsCont(s[2]) /\ Utf8Valid(Drop(s, 2))
             ELSE IF 224 <= b /\ b <= 239
                  THEN /\ n >= 3
                       /\ IsCont(s[2]) /\ IsCont(s[3])
                       /\ (b = 224 => s[2] >= 160)
                       /\ (b = 237 => s[2] <= 159)
                       /\ Utf8Valid(Drop(s, 3))
             ELSE IF 240 <= b /\ b <= 244
                  THEN /\ n >= 4
                       /\ IsCont(s[2]) /\ IsCont(s[3]) /\ IsCont(s[4])
                       /\ (b = 240 => s[2] >= 144)
                       /\ (b = 244 => s[2] <= 143)
                       /\ Utf8Valid(Drop(s, 4))
             ELSE FALSE

StringFromUtf8(bytes) ==
    IF Utf8Valid(bytes) THEN Ok(bytes) ELSE Err("invalid utf-8 sequence")

(***************************************************************************)
(* chunk_type.rs                                                           *)
(***************************************************************************)
ErrNotAscii == "The bytes are not between 65-90 or 97-122, i.e. ASCII"

IsBytesAllAsciiNoGap(value) ==
    \A i \in 1..4 : 65 <= value[i] /\ value[i] <= 122

IsBytesAllAscii(value) ==
    \A i \in 1..4 : (65 <= value[i] /\ value[i] <= 90) \/ (97 <= value[i] /\ value[i] <= 122)

IsBytesReservedBitValid(value) ==
    LET third_byte == value[3]
        bit_5 == BitAnd(third_byte, Shl(1, 5))
    IN  bit_5 = 0

\* impl TryFrom<[u8;4]> for ChunkType; a ChunkType is its value, four bytes
ChunkTypeTryFrom(value) ==
    IF ~IsBytesAllAscii(value) THEN Err(ErrNotAscii) ELSE Ok(value)

\* impl FromStr for ChunkType: s.as_bytes().try_into().unwrap() panics unless s has 4 bytes
ChunkTypeFromStr(s) ==
    IF Len(s) # 4 THEN Panic("unwrap on Err: TryFromSliceError")
    ELSE ChunkTypeTryFrom(s)

\* impl Display for ChunkType: String::from_utf8(self.value.to_vec()).unwrap()
ChunkTypeToString(ct) ==
    LET s == StringFromUtf8(ct)
    IN  IF s.kind = "ok" THEN s ELSE Panic("unwrap on Err: FromUtf8Error")

Bytes(ct) == ct

IsValid(ct) == IsBytesAllAscii(ct) /\ IsBytesReservedBitValid(ct)

IsCritical(ct) ==
    LET first_byte == ct[1]
        bit_5 == BitAnd(first_byte, Shl(1, 5))
    IN  bit_5 = 0

IsPublic(ct) ==
    LET second_byte == ct[2]
        bit_5 == BitAnd(second_byte, Shl(1, 5))
    IN  bit_5 = 0

IsReservedBitValid(ct) == IsBytesReservedBitValid(ct)

IsSafeToCopyInverted(ct) ==
    LET fourth_byte == ct[4]
        bit_5 == BitAnd(fourth_byte, Shl(1, 5))
    IN  bit_5 = 0

IsSafeToCopy(ct) ==
    LET fourth_byte == ct[4]
        bit_5 == BitAnd(fourth_byte, Shl(1, 5))
    IN  bit_5 # 0

Flags(ct) ==
    [is_valid |-> IsValid(ct), is_critical |-> IsCritical(ct), is_public |-> IsPublic(ct),
     is_reserved_bit_valid |-> IsReservedBitValid(ct), is_safe_to_copy |-> IsSafeToCopy(ct)]

NoFlags ==
    [is_valid |-> FALSE, is_critical |-> FALSE, is_public |-> FALSE,
     is_reserved_bit_valid |-> FALSE, is_safe_to_copy |-> FALSE]

(***************************************************************************)
(* crc::Crc::<u32>::new(&CRC_32_ISO_HDLC): polynomial 0x04C11DB7 reflected *)
(* (0xEDB88320), initial value and final xor 0xFFFFFFFF, computed a byte   *)
(* at a time through the 256-entry table.                                  *)
(***************************************************************************)
PolyReflected == [hi |-> 60856, lo |-> 33568]
AllOnes == [hi |-> 65535, lo |-> 65535]

RECURSIVE CrcBits(_, _)
CrcBits(c, n) ==
    IF n = 0 THEN c
    ELSE CrcBits(IF c.lo % 2 = 1 THEN U32Xor(U32Shr(c, 1), PolyReflected) ELSE U32Shr(c, 1), n - 1)

CrcTable == [i \in 0..255 |-> CrcBits(U32Of(i), 8)]

CrcUpdate(crc, byte) == U32Xor(CrcTable[BitXor(crc.lo % 256, byte)], U32Shr(crc, 8))

\* the digest updated with bytes[lo..hi], in order.  The range is halved and the
\* digest so far is read before the range is visited, which keeps the evaluation shallow.
RECURSIVE CrcFold(_, _, _, _)
CrcFold(crc, bytes, lo, hi) ==
    IF lo > hi \/ crc.lo < 0 THEN crc
    ELSE IF lo = hi THEN CrcUpdate(crc, bytes[lo])
    ELSE LET mid == (lo + hi) \div 2
         IN  CrcFold(CrcFold(crc, bytes, lo, mid), bytes, mid + 1, hi)

CrcChecksum(bytes) == U32Xor(CrcFold(AllOnes, bytes, 1, Len(bytes)), AllOnes)

(***************************************************************************)
(* chunk.rs                                                                *)
(***************************************************************************)
ErrNotEnoughRequired == "There is not enough bytes to for required fields"
ErrNotEnough == "There is not enough bytes"
ErrCrcInvalid == "The crc checksum is invalid"

\* Chunk::new
ChunkNewCrcOverLength(chunk_type, data) ==
    LET length == U32Of(Len(data))
        crc_input == U32ToBeBytes(length) \o Bytes(chunk_type) \o data
    IN  [length |-> length, chunk_type |-> chunk_type, data |-> data, crc |-> CrcChecksum(crc_input)]

ChunkNew(chunk_type, data) ==
    LET length == U32Of(Len(data))
        crc_input == Bytes(chunk_type) \o data
        crc == CrcChecksum(crc_input)
    IN  [length |-> length, chunk_type |-> chunk_type, data |-> data, crc |-> crc]

\* Chunk::as_bytes
ChunkAsBytesLittleEndian(c) ==
    U32ToLeBytes(c.length) \o Bytes(c.chunk_type) \o c.data \o U32ToLeBytes(c.crc)

ChunkAsBytes(c) ==
    U32ToBeBytes(c.length) \o Bytes(c.chunk_type) \o c.data \o U32ToBeBytes(c.crc)

\* Chunk::data_as_string
DataAsString(c) == StringFromUtf8(c.data)

\* the comparison of the recomputed checksum with the stored one
CrcUnchecked(crc_input, crc) == TRUE

CrcMatches(crc_input, crc) == CrcChecksum(crc_input) = crc

\* impl TryFrom<&[u8]> for Chunk.  The slice is consumed front to back through one
\* iterator; checks is the build's overflow-checks setting, which decides what
\* `12 + length` does when the sum does not fit a u32.
ChunkTryFrom(value, checks) ==
    LET bytes_length == U32Of(Len(value))
    IN  IF U32Lt(bytes_length, U32Of(12)) THEN Err(ErrNotEnoughRequired)
        ELSE
        LET length_bytes == Take(value, 4)
            rest1 == Drop(value, 4)
            length == U32FromBeBytes(length_bytes)
        IN  IF U32AddOverflows(U32Of(12), length) /\ checks
            THEN Panic("attempt to add with overflow")
            ELSE IF bytes_length # U32WrappingAdd(U32Of(12), length) THEN Err(ErrNotEnough)
            ELSE
            LET chunk_type_bytes == Take(rest1, 4)
                rest2 == Drop(rest1, 4)
                chunk_type == ChunkTypeTryFrom(chunk_type_bytes)
            IN  IF chunk_type.kind # "ok" THEN chunk_type
                ELSE
                LET data == Take(rest2, UsizeOf(length))
                    rest3 == Drop(rest2, Len(data))
                    crc_bytes == Take(rest3, 4)
                IN  IF Len(crc_bytes) # 4 THEN Panic("unwrap on Err: Vec<u8>")
                    ELSE
                    LET crc == U32FromBeBytes(crc_bytes)
                        crc_input == chunk_type_bytes \o data
                    IN  IF ~CrcMatches(crc_input, crc) THEN Err(ErrCrcInvalid)
                        ELSE Ok([length |-> length, chunk_type |-> chunk_type.value,
                                 data |-> data, crc |-> crc])

(***************************************************************************)
(* Idle values: a specification that does not exercise a group of          *)
(* variables keeps that group at these values.                             *)
(***************************************************************************)
NoTamper == [flip |-> "none", relen |-> FALSE, resized |-> FALSE]
NoChunk == [length |-> U32Of(0), chunk_type |-> <<>>, data |-> <<>>, crc |-> U32Of(0)]
NoCmd == [name |-> "none", chunk_type |-> <<>>, message |-> <<>>]
NoPng == [chunks |-> <<>>]

TagIdle ==
    /\ tinput = <<>> /\ top = "none" /\ tresult = None /\ tqueried = FALSE /\ tflags = NoFlags

ChunkIdle ==
    /\ chunk = NoChunk /\ wire = <<>> /\ tamper = NoTamper /\ parsed = None /\ cpc = "idle"

CmdIdle ==
    /\ file = <<>> /\ png = NoPng /\ cmd = NoCmd /\ pc = "idle" /\ result = None
    /\ writes = 0 /\ ncmds = 0 /\ stdout = <<>>

RECURSIVE SeqsUpTo(_, _)
SeqsUpTo(S, n) ==
    IF n = 0 THEN {<<>>}
    ELSE LET shorter == SeqsUpTo(S, n - 1)
         IN  shorter \cup {Append(q, x) : q \in {r \in shorter : Len(r) = n - 1}, x \in S}

(***************************************************************************)
(* SpecTag: ChunkType::try_from and ChunkType::from_str applied to inputs  *)
(* drawn from bounded sets, then the derived flags of the constructed tag. *)
(***************************************************************************)
\* bytes around the edges of the two letter ranges, and the letters of "RuSt", "Rust"
TagBytes == {64, 65, 90, 91, 96, 97, 122, 123, 82, 83, 115, 116, 117}
TagArrays == {<<a, b, c, d>> : a \in TagBytes, b \in TagBytes, c \in TagBytes, d \in TagBytes}
\* strings of every length up to MaxStrLen: "A", "a1", a two-byte character
StrBytes == {65, 49}
TagStrings == SeqsUpTo(StrBytes, MaxStrLen) \cup {<<195, 169>>, <<195, 169, 195, 169>>, <<97, 195, 169>>}

TagInit ==
    /\ tinput \in TagArrays \cup TagStrings
    /\ top = "none" /\ tresult = None /\ tqueried = FALSE /\ tflags = NoFlags
    /\ ChunkIdle /\ CmdIdle /\ overflow_checks = TRUE

tagOnly == <<overflow_checks, chunkVars, cmdVars>>

\* ChunkType::try_from(value) on a [u8;4]
TagTryFrom ==
    /\ top = "none"
    /\ Len(tinput) = 4
    /\ top' = "try_from"
    /\ tresult' = ChunkTypeTryFrom(tinput)
    /\ UNCHANGED <<tinput, tqueried, tflags, tagOnly>>

\* ChunkType::from_str(s) on a &str
TagFromStr ==
    /\ top = "none"
    /\ Utf8Valid(tinput)
    /\ top' = "from_str"
    /\ tresult' = ChunkTypeFromStr(tinput)
    /\ UNCHANGED <<tinput, tqueried, tflags, tagOnly>>

\* is_valid, is_critical, is_public, is_reserved_bit_valid, is_safe_to_copy of the tag built
TagQuery ==
    /\ top \in {"try_from", "from_str"}
    /\ tresult.kind = "ok"
    /\ ~tqueried
    /\ tqueried' = TRUE
    /\ tflags' = Flags(tresult.value)
    /\ UNCHANGED <<tinput, top, tresult, tagOnly>>

TagNext == TagTryFrom \/ TagFromStr \/ TagQuery

SpecTag == TagInit /\ [][TagNext]_vars

Letter(b) == b \in (65..90) \cup (97..122)
Bit5Clear(b) == (b \div 32) % 2 = 0
TagRuSt == <<82, 117, 83, 116>>
TagRust == <<82, 117, 115, 116>>

\* C1: try_from on four bytes succeeds exactly when all four are ASCII letters, and
\* then yields those bytes; the reserved bit does not block construction: "Rust" is
\* constructed and reports is_valid() = FALSE.
C1_TagValidityPartition ==
    /\ top = "try_from" =>
          /\ tresult.kind \in {"ok", "err"}
          /\ tresult.kind = "ok" <=> \A i \in 1..4 : Letter(tinput[i])
          /\ tresult.kind = "ok" => tresult.value = tinput
          /\ tresult.kind = "err" => tresult.msg = ErrNotAscii
          /\ (\A i \in {1, 2, 4} : Letter(tinput[i])) /\ tinput[3] \in {83, 115} => tresult.kind = "ok"
    /\ top = "try_from" /\ tqueried /\ tinput = TagRust =>
          tresult.kind = "ok" /\ ~tflags.is_valid

C1_Witness ==
    /\ top = "try_from" /\ tqueried /\ tinput = TagRust
    /\ tresult.kind = "ok" /\ ~tflags.is_valid

\* C6: from_str returns an error value for every string whose encoded length is not
\* 4 bytes, gives the byte constructor's result for 4-byte strings, and never panics.
C6_FromStrNeverPanics ==
    top = "from_str" =>
        /\ tresult.kind # "panic"
        /\ Len(tinput) # 4 => tresult.kind = "err"
        /\ Len(tinput) = 4 => tresult = ChunkTypeTryFrom(tinput)

\* C9: for a constructed tag, is_critical, is_public and is_reserved_bit_valid hold
\* exactly when bit 5 of byte 0, 1, 2 is clear, is_safe_to_copy exactly when bit 5 of
\* byte 3 is set; no flag changes when another byte changes; is_valid holds exactly
\* when all bytes are letters and is_reserved_bit_valid holds.
C9_FlagsAreBit5 ==
    tqueried =>
        LET v == tresult.value
        IN  /\ tflags.is_critical <=> Bit5Clear(v[1])
            /\ tflags.is_public <=> Bit5Clear(v[2])
            /\ tflags.is_reserved_bit_valid <=> Bit5Clear(v[3])
            /\ tflags.is_safe_to_copy <=> ~Bit5Clear(v[4])
            /\ tflags.is_valid <=> (\A i \in 1..4 : Letter(v[i])) /\ tflags.is_reserved_bit_valid
            /\ \A i \in 1..4 : \A x \in TagBytes :
                  LET w == [v EXCEPT ![i] = x]
                  IN  /\ i # 1 => IsCritical(w) = tflags.is_critical
                      /\ i # 2 => IsPublic(w) = tflags.is_public
                      /\ i # 3 => IsReservedBitValid(w) = tflags.is_reserved_bit_valid
                      /\ i # 4 => IsSafeToCopy(w) = tflags.is_safe_to_copy

C9_Witness ==
    /\ tqueried /\ tinput = TagRuSt
    /\ tflags = [is_valid |-> TRUE, is_critical |-> TRUE, is_public |-> FALSE,
                 is_reserved_bit_valid |-> TRUE, is_safe_to_copy |-> TRUE]

(***************************************************************************)
(* SpecChunk: Chunk::new on a constructed tag and a payload, as_bytes,     *)
(* tampering with the serialized bytes, and Chunk::try_from on the result. *)
(***************************************************************************)
TagAbCd == <<97, 98, 67, 100>>
ChunkTags == {ct \in {TagRuSt, TagAbCd} : ChunkTypeTryFrom(ct).kind = "ok"}
DataBytes == {0, 104, 255}
\* "This is where your secret message will be!"
TestMessage ==
    <<84, 104, 105, 115, 32, 105, 115, 32, 119, 104, 101, 114, 101, 32, 121, 111, 117, 114, 32,
      115, 101, 99, 114, 101, 116, 32, 109, 101, 115, 115, 97, 103, 101, 32, 119, 105, 108, 108,
      32, 98, 101, 33>>
ChunkInputs ==
    {<<ct, data>> : ct \in ChunkTags, data \in SeqsUpTo(DataBytes, MaxData)}
        \cup {<<TagRuSt, TestMessage>>}
\* declared lengths: small ones, and ones at and around 2^32 - 12
LengthFields ==
    {<<0, 0, 0, n>> : n \in 0..(MaxData + 1)}
        \cup {<<0, 0, 1, 0>>, <<1, 0, 0, 0>>, <<255, 255, 255, 243>>, <<255, 255, 255, 244>>,
              <<255, 255, 255, 255>>}
ResizeTargets(n) == {0, 10, 11, n - 1, n + 1}

RECURSIVE Zeros(_)
Zeros(n) == IF n <= 0 THEN <<>> ELSE <<0>> \o Zeros(n - 1)

Region(i, n) ==
    IF i <= 4 THEN "length" ELSE IF i <= 8 THEN "tag" ELSE IF i <= n - 4 THEN "data" ELSE "crc"

chunkOnly == <<tagVars, cmdVars>>

ChunkInit ==
    /\ overflow_checks \in BOOLEAN
    /\ chunk = NoChunk /\ wire = <<>> /\ tamper = NoTamper /\ parsed = None /\ cpc = "start"
    /\ TagIdle /\ CmdIdle

\* Chunk::new(chunk_type, data)
ChunkBuild ==
    /\ cpc = "start"
    /\ \E in \in ChunkInputs : chunk' = ChunkNew(in[1], in[2])
    /\ cpc' = "built"
    /\ UNCHANGED <<overflow_checks, wire, tamper, parsed, chunkOnly>>

\* chunk.as_bytes()
ChunkSerialize ==
    /\ cpc = "built"
    /\ wire' = ChunkAsBytes(chunk)
    /\ cpc' = "wire"
    /\ UNCHANGED <<overflow_checks, chunk, tamper, parsed, chunkOnly>>

\* one bit of the serialized chunk flipped
ChunkFlipBit ==
    /\ cpc = "wire" /\ tamper = NoTamper
    /\ \E i \in 1..Len(wire), k \in 0..7 :
          /\ wire' = [wire EXCEPT ![i] = BitXor(wire[i], Shl(1, k))]
          /\ tamper' = [tamper EXCEPT !.flip = Region(i, Len(wire))]
    /\ UNCHANGED <<overflow_checks, chunk, parsed, cpc, chunkOnly>>

\* the declared length overwritten
ChunkSetLength ==
    /\ cpc = "wire" /\ tamper = NoTamper
    /\ \E b \in LengthFields : wire' = b \o Drop(wire, 4)
    /\ tamper' = [tamper EXCEPT !.relen = TRUE]
    /\ UNCHANGED <<overflow_checks, chunk, parsed, cpc, chunkOnly>>

\* the slice cut short, or followed by further bytes
ChunkResize ==
    /\ cpc = "wire" /\ tamper.flip = "none" /\ ~tamper.resized
    /\ \E n \in ResizeTargets(Len(wire)) :
          /\ n >= 0
          /\ wire' = Take(wire, n) \o Zeros(n - Len(wire))
    /\ tamper' = [tamper EXCEPT !.resized = TRUE]
    /\ UNCHANGED <<overflow_checks, chunk, parsed, cpc, chunkOnly>>

\* Chunk::try_from(wire)
ChunkParse ==
    /\ cpc = "wire"
    /\ parsed' = ChunkTryFrom(wire, overflow_checks)
    /\ cpc' = "parsed"
    /\ UNCHANGED <<overflow_checks, chunk, wire, tamper, chunkOnly>>

ChunkNext ==
    ChunkBuild \/ ChunkSerialize \/ ChunkFlipBit \/ ChunkSetLength \/ ChunkResize \/ ChunkParse

SpecChunk == ChunkInit /\ [][ChunkNext]_vars

\* CRC-32/ISO-HDLC computed bit by bit, without the table
RECURSIVE RefCrcFold(_, _, _, _)
RefCrcFold(crc, bytes, lo, hi) ==
    IF lo > hi \/ crc.lo < 0 THEN crc
    ELSE IF lo = hi THEN CrcBits(U32Xor(crc, U32Of(bytes[lo])), 8)
    ELSE LET mid == (lo + hi) \div 2
         IN  RefCrcFold(RefCrcFold(crc, bytes, lo, mid), bytes, mid + 1, hi)

RefCrc32(bytes) == U32Xor(RefCrcFold(AllOnes, bytes, 1, Len(bytes)), AllOnes)

\* checksum 2882656334 of the test vector, as 16-bit halves
TestCrc == [hi |-> 43985, lo |-> 55374]

ChunkInvariants(c) ==
    /\ c.crc = RefCrc32(c.chunk_type \o c.data)
    /\ c.length.hi = 0 /\ c.length.lo = Len(c.data)

\* C2: the serialization of a chunk built by Chunk::new is 12 + length bytes long,
\* and parsing it succeeds and gives back the same length, tag, payload and checksum.
C2_ChunkRoundTrip ==
    /\ cpc \in {"wire", "parsed"} /\ tamper = NoTamper =>
          Len(wire) = 12 + UsizeOf(chunk.length)
    /\ cpc = "parsed" /\ tamper = NoTamper =>
          /\ parsed.kind = "ok"
          /\ parsed.value.length = chunk.length
          /\ parsed.value.chunk_type = chunk.chunk_type
          /\ parsed.value.data = chunk.data
          /\ parsed.value.crc = chunk.crc

C2_Witness ==
    /\ cpc = "parsed" /\ tamper = NoTamper /\ parsed.kind = "ok"
    /\ chunk.data = <<>> /\ Len(wire) = 12 /\ parsed.value.data = <<>>

\* C3: a chunk built by Chunk::new, and a chunk a parse returned, stores the CRC-32
\* of tag bytes ++ payload bytes (length field excluded) and the payload's byte count
\* as its length; the test vector has length 42 and checksum 2882656334.
C3_ChunkInvariants ==
    /\ cpc \in {"built", "wire", "parsed"} => ChunkInvariants(chunk)
    /\ parsed.kind = "ok" => ChunkInvariants(parsed.value)
    /\ cpc # "start" /\ chunk.chunk_type = TagRuSt /\ chunk.data = TestMessage =>
          chunk.length = U32Of(42) /\ chunk.crc = TestCrc

C3_Witness ==
    /\ cpc = "parsed" /\ parsed.kind = "ok"
    /\ parsed.value.chunk_type = TagRuSt /\ parsed.value.data = TestMessage
    /\ parsed.value.crc = TestCrc /\ chunk.crc = TestCrc

\* the declared length of a slice of at least 12 bytes differs from its length - 12
DeclaredMismatch(w) == U32FromBeBytes(Take(w, 4)) # U32Of(Len(w) - 12)

\* C4: the parse never panics; a slice shorter than 12 bytes gives the
\* insufficient-bytes error, and a slice whose length is not 12 + its declared length
\* gives the length-mismatch error, for every declared length 0..2^32-1.
C4_ParseErrorsNoPanic ==
    cpc = "parsed" =>
        /\ parsed.kind # "panic"
        /\ Len(wire) < 12 => parsed.kind = "err" /\ parsed.msg = ErrNotEnoughRequired
        /\ Len(wire) >= 12 /\ DeclaredMismatch(wire) =>
              parsed.kind = "err" /\ parsed.msg = ErrNotEnough

\* C5 as stated: after one bit of the tag or of the payload is flipped, the parse
\* fails with the checksum error.
C5_FlipGivesChecksumError ==
    cpc = "parsed" /\ tamper.flip \in {"tag", "data"} =>
        parsed.kind = "err" /\ parsed.msg = ErrCrcInvalid

\* C5 amended: after one bit of the tag or of the payload is flipped, the parse
\* fails: with the invalid-tag error when the flipped tag is no longer four ASCII
\* letters, and with the checksum error otherwise.
C5_FlipFailsTagThenChecksum ==
    cpc = "parsed" /\ tamper.flip \in {"tag", "data"} =>
        /\ parsed.kind = "err"
        /\ parsed.msg = (IF \A i \in 5..8 : Letter(wire[i]) THEN ErrCrcInvalid ELSE ErrNotAscii)
        /\ tamper.flip = "data" => parsed.msg = ErrCrcInvalid

C5_Witness ==
    /\ cpc = "parsed" /\ tamper.flip = "tag"
    /\ parsed.kind = "err" /\ parsed.msg = ErrNotAscii
    /\ chunk.chunk_type = TagRuSt /\ chunk.data = TestMessage

(***************************************************************************)
(* png.rs: the container.  A Png is [chunks]; its header is the signature. *)
(***************************************************************************)
PngSignature == <<137, 80, 78, 71, 13, 10, 26, 10>>
ErrInvalidSignature == "invalid signature"
ErrChunkNotFound == "chunk not found"

\* the bytes of the next chunk record: 12 + declared length of them, or what is left
NextRecord(rest) ==
    IF Len(rest) < 4 THEN rest
    ELSE LET length == U32FromBeBytes(Take(rest, 4))
         IN  IF length.hi > 0 THEN rest ELSE Take(rest, 12 + length.lo)

RECURSIVE PngParseChunks(_, _, _)
PngParseChunks(rest, acc, checks) ==
    IF Len(rest) = 0 THEN Ok([chunks |-> acc])
    ELSE LET record == NextRecord(rest)
             c == ChunkTryFrom(record, checks)
         IN  IF c.kind # "ok" THEN c
             ELSE PngParseChunks(Drop(rest, Len(record)), Append(acc, c.value), checks)

\* Png::try_from(bytes)
PngTryFrom(bytes, checks) ==
    IF Len(bytes) < 8 \/ Take(bytes, 8) # PngSignature THEN Err(ErrInvalidSignature)
    ELSE PngParseChunks(Drop(bytes, 8), <<>>, checks)

\* png.append_chunk(chunk)
PngAppendChunk(p, c) == [p EXCEPT !.chunks = Append(@, c)]

\* position of the first chunk whose tag renders to text, 0 when there is none
RECURSIVE FirstIndex(_, _, _)
FirstIndex(chunks, text, i) ==
    IF i > Len(chunks) THEN 0
    ELSE IF ChunkTypeToString(chunks[i].chunk_type).value = text THEN i
    ELSE FirstIndex(chunks, text, i + 1)

\* png.remove_chunk(text)
PngRemoveChunk(p, text) ==
    LET i == FirstIndex(p.chunks, text, 1)
    IN  IF i = 0 THEN Err(ErrChunkNotFound)
        ELSE Ok([p EXCEPT !.chunks = SubSeq(@, 1, i - 1) \o SubSeq(@, i + 1, Len(@))])

\* png.chunk_by_type(text): Some(chunk) as Ok(chunk), None as None
PngChunkByType(p, text) ==
    LET i == FirstIndex(p.chunks, text, 1)
    IN  IF i = 0 THEN None ELSE Ok(p.chunks[i])

RECURSIVE ConcatChunks(_, _)
ConcatChunks(chunks, i) ==
    IF i > Len(chunks) THEN <<>> ELSE ChunkAsBytes(chunks[i]) \o ConcatChunks(chunks, i + 1)

\* png.as_bytes()
PngAsBytes(p) == PngSignature \o ConcatChunks(p.chunks, 1)

\* Png::try_from_path(path): the file's bytes, parsed
PngTryFromPath(contents, checks) == PngTryFrom(contents, checks)

(***************************************************************************)
(* commands.rs: encode, decode, remove and print, each run as its steps:   *)
(* the file is read and parsed, the body of the command runs, and encode   *)
(* and remove then write the file.  A `?` on an Err, or a panic, ends the  *)
(* command at that step.                                                   *)
(***************************************************************************)
ErrNoSuchChunkType == "No such chunk_type found"

\* encode, after the parse: ChunkType::from_str(chunk_type)?, then append_chunk(Chunk::new(..))
EncodeBody(p, c) ==
    LET chunk_type == ChunkTypeFromStr(c.chunk_type)
    IN  IF chunk_type.kind # "ok" THEN chunk_type
        ELSE Ok(PngAppendChunk(p, ChunkNew(chunk_type.value, c.message)))

\* remove, after the parse: png.remove_chunk(chunk_type.as_str())?
RECURSIVE RemoveBodyEveryMatch(_, _)
RemoveBodyEveryMatch(p, c) ==
    LET r == PngRemoveChunk(p, c.chunk_type)
    IN  IF r.kind # "ok" THEN r
        ELSE LET more == RemoveBodyEveryMatch(r.value, c)
             IN  IF more.kind = "ok" THEN more ELSE r

RemoveBody(p, c) == PngRemoveChunk(p, c.chunk_type)

\* decode, after the parse: the chunk looked up, its data printed as a string
DecodeBody(p, c) ==
    LET found == PngChunkByType(p, c.chunk_type)
    IN  IF found.kind = "none" THEN Err(ErrNoSuchChunkType)
        ELSE DataAsString(found.value)

\* print, after the parse: the header, then each chunk's data as a string, up to the
\* first one that is not text.  [out: the lines printed, res: the command's result]
RECURSIVE PrintChunks(_, _, _)
PrintChunks(chunks, i, out) ==
    IF i > Len(chunks) THEN [out |-> out, res |-> Ok(<<>>)]
    ELSE LET text == DataAsString(chunks[i])
         IN  IF text.kind # "ok" THEN [out |-> out, res |-> text]
             ELSE PrintChunks(chunks, i + 1, Append(out, text.value))

PrintBody(p) == PrintChunks(p.chunks, 1, <<PngSignature>>)

TagTeSt == <<116, 101, 83, 116>>
\* chunk_type arguments: "abCd", "teSt", "abc", "ab1d"
CmdTags == {TagAbCd, TagTeSt, <<97, 98, 99>>, <<97, 98, 49, 100>>}
\* message arguments: "", "hello"
CmdMessages == {<<>>, <<104, 101, 108, 108, 111>>}
Commands ==
    {[name |-> "encode", chunk_type |-> t, message |-> m] : t \in CmdTags, m \in CmdMessages}
        \cup {[name |-> n, chunk_type |-> t, message |-> <<>>] : n \in {"decode", "remove"}, t \in CmdTags}
        \cup {[name |-> "print", chunk_type |-> <<>>, message |-> <<>>]}

\* files to start from: an empty container, a container with a chunk that is not text,
\* a wrong signature, a chunk with a wrong checksum, a cut-off chunk
BinaryChunk == ChunkAsBytes(ChunkNew(TagAbCd, <<255>>))
InitialFiles ==
    { PngSignature,
      PngSignature \o BinaryChunk,
      <<0>> \o Drop(PngSignature, 1),
      PngSignature \o [BinaryChunk EXCEPT ![13] = BitXor(@, 1)],
      PngSignature \o Take(BinaryChunk, 5) }

cmdOnly == <<tagVars, chunkVars>>

Init ==
    /\ overflow_checks \in BOOLEAN
    /\ file \in InitialFiles
    /\ png = NoPng /\ cmd = NoCmd /\ pc = "idle" /\ result = None
    /\ writes = 0 /\ ncmds = 0 /\ stdout = <<>>
    /\ TagIdle /\ ChunkIdle

\* main: one of the four commands is started with its arguments
CmdStart ==
    /\ pc \in {"idle", "done"}
    /\ ncmds < MaxCmds
    /\ cmd' \in Commands
    /\ pc' = "parse" /\ png' = NoPng /\ result' = None /\ writes' = 0 /\ stdout' = <<>>
    /\ ncmds' = ncmds + 1
    /\ UNCHANGED <<overflow_checks, file, cmdOnly>>

\* Png::try_from_path(file_path)?
CmdParse ==
    /\ pc = "parse"
    /\ LET r == PngTryFromPath(file, overflow_checks)
       IN  IF r.kind = "ok"
           THEN png' = r.value /\ pc' = "body" /\ UNCHANGED result
           ELSE result' = r /\ pc' = "done" /\ UNCHANGED png
    /\ UNCHANGED <<overflow_checks, file, cmd, writes, ncmds, stdout, cmdOnly>>

CmdEncode ==
    /\ pc = "body" /\ cmd.name = "encode"
    /\ LET r == EncodeBody(png, cmd)
       IN  IF r.kind = "ok"
           THEN png' = r.value /\ pc' = "write" /\ UNCHANGED result
           ELSE result' = r /\ pc' = "done" /\ UNCHANGED png
    /\ UNCHANGED <<overflow_checks, file, cmd, writes, ncmds, stdout, cmdOnly>>

CmdRemove ==
    /\ pc = "body" /\ cmd.name = "remove"
    /\ LET r == RemoveBody(png, cmd)
       IN  IF r.kind = "ok"
           THEN png' = r.value /\ pc' = "write" /\ UNCHANGED result
           ELSE result' = r /\ pc' = "done" /\ UNCHANGED png
    /\ UNCHANGED <<overflow_checks, file, cmd, writes, ncmds, stdout, cmdOnly>>

CmdDecode ==
    /\ pc = "body" /\ cmd.name = "decode"
    /\ LET r == DecodeBody(png, cmd)
       IN  IF r.kind = "ok"
           THEN stdout' = <<r.value>> /\ result' = Ok(<<>>)
           ELSE result' = r /\ UNCHANGED stdout
    /\ pc' = "done"
    /\ UNCHANGED <<overflow_checks, file, png, cmd, writes, ncmds, cmdOnly>>

CmdPrint ==
    /\ pc = "body" /\ cmd.name = "print"
    /\ LET r == PrintBody(png)
       IN  stdout' = r.out /\ result' = r.res
    /\ pc' = "done"
    /\ UNCHANGED <<overflow_checks, file, png, cmd, writes, ncmds, cmdOnly>>

\* Ok(fs::write(file_path, png.as_bytes())?)
CmdWrite ==
    /\ pc = "write"
    /\ file' = PngAsBytes(png)
    /\ writes' = writes + 1
    /\ result' = Ok(<<>>)
    /\ pc' = "done"
    /\ UNCHANGED <<overflow_checks, png, cmd, ncmds, stdout, cmdOnly>>

Next ==
    CmdStart \/ CmdParse \/ CmdEncode \/ CmdRemove \/ CmdDecode \/ CmdPrint \/ CmdWrite

Spec == Init /\ [][Next]_vars

\* the chunks of the file as it is on disk (the file is rewritten only by CmdWrite)
OnDisk == PngTryFrom(file, overflow_checks)
CountTag(chunks, t) == Cardinality({i \in 1..Len(chunks) : chunks[i].chunk_type = t})

\* C7: a successful remove(t) deletes exactly the first chunk in sequence order whose
\* tag is t and leaves every other chunk, later ones with the same tag included, in
\* its place and order; when no chunk has tag t it fails with the chunk-not-found
\* error, and neither the container nor the file changes.
C7_RemoveFirstMatchOnly ==
    /\ pc = "write" /\ cmd.name = "remove" =>
          LET old == OnDisk.value.chunks
              t == cmd.chunk_type
          IN  \E i \in 1..Len(old) :
                  /\ old[i].chunk_type = t
                  /\ \A j \in 1..(i - 1) : old[j].chunk_type # t
                  /\ Len(png.chunks) = Len(old) - 1
                  /\ \A j \in 1..(i - 1) : png.chunks[j] = old[j]
                  /\ \A j \in (i + 1)..Len(old) : png.chunks[j - 1] = old[j]
    /\ pc = "done" /\ cmd.name = "remove" /\ OnDisk.kind = "ok" /\ writes = 0 =>
          /\ CountTag(OnDisk.value.chunks, cmd.chunk_type) = 0
          /\ result = Err(ErrChunkNotFound)
          /\ png = OnDisk.value

C7_Witness ==
    /\ pc = "write" /\ cmd.name = "remove"
    /\ CountTag(OnDisk.value.chunks, cmd.chunk_type) = 2
    /\ CountTag(png.chunks, cmd.chunk_type) = 1
    /\ Len(png.chunks) = 2
    /\ png.chunks[1].chunk_type # cmd.chunk_type

\* C8: every container that append and remove produce, starting from parsed files,
\* serializes to bytes that parse back to the same chunks in the same order; after a
\* chunk with tag t and message m is appended to a container with no chunk tagged t,
\* the chunk found under t in the re-parsed serialization has m as its text.
C8_ContainerRoundTrip ==
    /\ pc = "write" => PngTryFrom(PngAsBytes(png), overflow_checks) = Ok(png)
    /\ pc = "done" /\ writes = 1 => OnDisk = Ok(png)
    /\ pc = "write" /\ cmd.name = "encode" /\ CountTag(OnDisk.value.chunks, cmd.chunk_type) = 0 =>
          LET again == PngTryFrom(PngAsBytes(png), overflow_checks)
              found == PngChunkByType(again.value, cmd.chunk_type)
          IN  /\ again.kind = "ok"
              /\ found.kind = "ok"
              /\ DataAsString(found.value) = Ok(cmd.message)

\* "teSt" with "hello" appended to the empty container and written; then decode prints it
C8_Witness ==
    /\ pc = "done" /\ cmd = [name |-> "decode", chunk_type |-> TagTeSt, message |-> <<>>]
    /\ file = PngSignature \o ChunkAsBytes(ChunkNew(TagTeSt, <<104, 101, 108, 108, 111>>))
    /\ stdout = << <<104, 101, 108, 108, 111>> >>
    /\ result.kind = "ok"

\* C10: a command writes the file at most once, decode and print never, and only a
\* command that succeeds writes; a step that fails ends the command with that error
\* as its returned value.
C10_WriteLastOrReturnError ==
    /\ writes <= 1
    /\ cmd.name \in {"decode", "print"} => writes = 0
    /\ writes = 1 => pc = "done" /\ result.kind = "ok"
    /\ pc = "done" => result.kind \in {"ok", "err"}

\* the part of C10 that the code keeps: the file changes only in the write step,
\* which is the last step of an encode or remove whose earlier steps all succeeded
WriteIsLastStep ==
    [][file' # file =>
          /\ pc = "write" /\ pc' = "done" /\ writes = 0 /\ writes' = 1
          /\ cmd.name \in {"encode", "remove"} /\ result'.kind = "ok"]_vars

WritesOnlyOnSuccess ==
    /\ writes <= 1
    /\ cmd.name \in {"decode", "print"} => writes = 0
    /\ writes = 1 => pc = "done" /\ result.kind = "ok"

====
